---- MODULE Spec2Model ----
(***************************************************************************)
(* A model of mappie's map managers (sources.py) and of the pixel shifting *)
(* of adjust.py: cache directory resolution, the tile cache, the grid      *)
(* stitcher of the tile based managers and the single request path of the  *)
(* GoogleManager.                                                          *)
(*                                                                         *)
(* Numbers.  A longitude is held as its exact Mercator abscissa at the     *)
(* reference zoom, OFFSET + RADIUS*radians(lon), in units of 1/SubPix      *)
(* pixel (a linear change of unit).  A latitude handed to the program is   *)
(* held in tenths of a degree; MercY gives its exact Mercator ordinate in  *)
(* the same unit.  A latitude the program computes is held as its Mercator *)
(* ordinate, so that two latitudes compare by their ordinates (a larger    *)
(* ordinate is a smaller latitude).  Floating point error is not modelled. *)
(***************************************************************************)
EXTENDS Integers, Sequences, FiniteSets, TLC

\* ------------------------------------------------------------------ bounds
MaxCalls == 2
SubPix == 2

\* ------------------------------------------------------- program constants
OFFSET == 268435456
RefZoom == 21
TileSize == 256
MaxSize == 640

\* ------------------------------------------------------------ Python values
\* A value is a record of its type and, in a field of its own per type,
\* what it holds.
PyNone == [t |-> "none"]
PyStr(s) == [t |-> "str", sv |-> s]
PyInt(n) == [t |-> "int", nv |-> n]
PyBool(b) == [t |-> "bool", bv |-> b]
\* a tuple of ints, a list of ints, a list of (lat, lon) tuples, a list of
\* lists of (lat, lon) tuples
PyTuple(s) == [t |-> "tuple", len |-> Len(s), qv |-> s]
PyList(s) == [t |-> "list", len |-> Len(s), lv |-> s]
PyPoints(s) == [t |-> "list", len |-> Len(s), pts |-> s]
PyPaths(s) == [t |-> "list", len |-> Len(s), pths |-> s]
\* a float holding d/10
PyDeg(d) == [t |-> "float", dv |-> d]

\* Python truth value: None, "", 0, False, () and [] are false.
Truthy(p) ==
  CASE p.t = "none" -> FALSE
    [] p.t = "str" -> p.sv # ""
    [] p.t = "int" -> p.nv # 0
    [] p.t = "float" -> p.dv # 0
    [] p.t = "bool" -> p.bv
    [] p.t \in {"tuple", "list"} -> p.len > 0

IsStrIn(p, S) == p.t = "str" /\ p.sv \in S

\* ------------------------------------------------------------- arithmetic
Pow2(n) == 2 ^ n

\* int(a / b) for b > 0: truncation toward zero
TruncDiv(a, b) == IF a >= 0 THEN a \div b ELSE -((-a) \div b)

\* Python 2 round() of n/SubPix: to the nearest integer, halves away from zero
Round(n) ==
  LET q == n \div SubPix
      r == n % SubPix
  IN  IF 2 * r > SubPix THEN q + 1
      ELSE IF 2 * r = SubPix THEN (IF n >= 0 THEN q + 1 ELSE q)
      ELSE q

\* the ordinate px + milli/1000 pixels, cut to the model's resolution
Ord(px, milli) == px * SubPix + (milli * SubPix) \div 1000

\* OFFSET - RADIUS * log((1+sin)/(1-sin)) / 2 of the latitude d/10 degrees,
\* before rounding: the values of the formula for the latitudes the model uses
MercY(d) ==
  CASE d = -850 -> Ord(535991563, 195)
    [] d = -600 -> Ord(380963791, 966)
    [] d = -500 -> Ord(354793947, 549)
    [] d = -450 -> Ord(343745003, 362)
    [] d = 0    -> Ord(268435456, 0)
    [] d = 55   -> Ord(260220635, 652)
    [] d = 80   -> Ord(256466036, 183)
    [] d = 105  -> Ord(252688330, 579)
    [] d = 400  -> Ord(203248137, 680)
    [] d = 405  -> Ord(202271161, 685)
    [] d = 410  -> Ord(201286876, 588)
    [] d = 850  -> Ord(879348, 805)

\* ------------------------------------------------------------- adjust.py
\* LonToX cutting the fraction off
LonToX_floor(lon) == lon \div SubPix

LonToX(lon) == Round(lon)

LatToY(lat) == Round(MercY(lat))

\* the longitude whose abscissa is the whole pixel x
XToLon(x) == x * SubPix

\* the latitude whose ordinate is the whole pixel y
YToLat(y) == y * SubPix

\* ShlRaises letting every shift count through
ShlRaisesNever(n) == FALSE

\* x << n raises ValueError (negative shift count) for n < 0, whatever x is
ShlRaises(n) == n < 0

\* x << n; there is no value when the shift raises
Shl(x, n) == IF n < 0 THEN 0 ELSE x * Pow2(n)

\* sum([a, b]) / 2. of two abscissae (not formed as a sum, which would leave
\* the model's integers)
Mean(a, b) == a + (b - a) \div 2

XYToLL(x, y, lon, lat, z) ==
  << XToLon(LonToX(lon) + Shl(x, RefZoom - z)),
     YToLat(LatToY(lat) + Shl(y, RefZoom - z)) >>

\* ----------------------------------------------------- tile coordinates
\* the reference-zoom pixels one tile spans at zoom z: the world is 2*OFFSET
\* pixels wide and 2^z tiles wide
TileSpan(z) == (2 * OFFSET) \div Pow2(z)

\* get_tile_coord giving the tile before the one the point is in
get_tile_coord_prev(lon_deg, lat_deg, zoom) ==
  << TruncDiv(lon_deg, SubPix * TileSpan(zoom)) - 1,
     TruncDiv(MercY(lat_deg), SubPix * TileSpan(zoom)) - 1 >>

\* int((lon_deg + 180.0) / 360.0 * n) and
\* int((1.0 - log(tan(lat_rad) + 1/cos(lat_rad)) / pi) / 2.0 * n), n = 2.0**zoom:
\* (lon+180)/360 is abscissa/(2*OFFSET), and log(tan + sec) is the Mercator
\* log((1+sin)/(1-sin))/2, so (1 - log(..)/pi)/2 is ordinate/(2*OFFSET)
get_tile_coord(lon_deg, lat_deg, zoom) ==
  << TruncDiv(lon_deg, SubPix * TileSpan(zoom)),
     TruncDiv(MercY(lat_deg), SubPix * TileSpan(zoom)) >>

\* tile_nw_latlon giving the middle of the tile
tile_nw_latlon_mid(tile_coord, zoom) ==
  << tile_coord[2] * TileSpan(zoom) * SubPix + (TileSpan(zoom) * SubPix) \div 2,
     tile_coord[1] * TileSpan(zoom) * SubPix + (TileSpan(zoom) * SubPix) \div 2 >>

\* (lat, lon) of the upper left corner of the tile: xtile / n * 360 - 180 has
\* abscissa xtile * 2*OFFSET/n, atan(sinh(pi * (1 - 2*ytile/n))) has ordinate
\* ytile * 2*OFFSET/n
tile_nw_latlon(tile_coord, zoom) ==
  << tile_coord[2] * TileSpan(zoom) * SubPix,
     tile_coord[1] * TileSpan(zoom) * SubPix >>

\* ------------------------------------------------------------ formatting
\* "%d" % p: an int as it is, a float truncated toward zero
FmtD(p) == IF p.t = "float" THEN ToString(TruncDiv(p.dv, 10)) ELSE ToString(p.nv)

\* "%s" % p for the values the URLs take
FmtS(p) ==
  CASE p.t = "str" -> p.sv
    [] p.t = "int" -> ToString(p.nv)
    [] p.t = "none" -> "None"
    [] p.t = "bool" -> IF p.bv THEN "True" ELSE "False"
    [] OTHER -> "?"

\* str() of the float t/20 (the mean of two latitudes held in tenths)
FmtDeg20(t) ==
  LET a == IF t >= 0 THEN t ELSE -t
      h == (a % 20) * 5
      frac == IF h % 10 = 0 THEN ToString(h \div 10)
              ELSE IF h < 10 THEN "0" \o ToString(h) ELSE ToString(h)
  IN  (IF t < 0 THEN "-" ELSE "") \o ToString(a \div 20) \o "." \o frac

\* str() of a longitude, written by its abscissa (an injective rendering)
FmtLon(l) == "x" \o ToString(l)

RECURSIVE JoinNonEmpty(_)
\* "&".join(parts) with the runs of "&" collapsed and a trailing "&" removed
JoinNonEmpty(parts) ==
  IF parts = << >> THEN ""
  ELSE LET rest == JoinNonEmpty(Tail(parts))
       IN  IF Head(parts) = "" THEN rest
           ELSE IF rest = "" THEN Head(parts)
           ELSE Head(parts) \o "&" \o rest

\* md5(server).hexdigest()[:5] of the server URLs of the model
Md5Hex5(server) ==
  CASE server = "http://tile.openstreetmap.org" -> "6ef42"
    [] server = "http://tile.stamen.com" -> "ddecf"
    [] server = "http://tiles.example.org" -> "0aa6e"
    [] server = "http://maps.googleapis.com/maps/api/staticmap?&&sensor=false" -> "0bc42"

\* ------------------------------------------------------------ the managers
Managers == {"osm", "stamen", "google"}

OsmServer == "http://tile.openstreetmap.org"
StamenServer == "http://tile.stamen.com"
GoogleServer == "http://maps.googleapis.com/maps/api/staticmap?&&sensor=false"
CustomServer == "http://tiles.example.org"

\* the directories of the model and what a directory can be: "rw" (a readable
\* and writable directory), "noaccess" (a directory without that access),
\* "absent" (makedirs would create it), "nocreate" (absent, makedirs fails)
ConfiguredDir == "/var/cache/mappie"
TempDirs == {"/scratch", "/var/tmp", "/temp", "/tmp"}
DirPaths == {ConfiguredDir} \cup TempDirs

isdir(d, p) == d[p] \in {"rw", "noaccess"}
access(d, p) == d[p] = "rw"

NoImage == [id |-> 0, mode |-> "", w |-> 0, h |-> 0, pastes |-> << >>]

NoManager ==
  [st |-> "none", cache |-> "", server |-> "", cache_prefix |-> "",
   maptype |-> PyNone, size |-> PyNone, scale |-> PyNone, style |-> PyNone,
   markers |-> PyNone, paths |-> PyNone, mode |-> "RGBA", image |-> NoImage,
   cacheArg |-> PyNone, serverArg |-> PyNone, cachePre |-> "", created |-> FALSE]

\* TempCandidate passing over TMP
TempCandidateNoTMP(e) ==
  IF e.TMPDIR # "" THEN e.TMPDIR
  ELSE IF e.TEMP # "" THEN e.TEMP
  ELSE "/tmp"

\* os.getenv("TMPDIR") or os.getenv("TMP") or os.getenv("TEMP") or "/tmp"
TempCandidate(e) ==
  IF e.TMPDIR # "" THEN e.TMPDIR
  ELSE IF e.TMP # "" THEN e.TMP
  ELSE IF e.TEMP # "" THEN e.TEMP
  ELSE "/tmp"

\* the directory MapManager.__init__ settles on from the cache argument alone
\* ("" when it settles on none), and whether it created it
ConfiguredCache(cache, d) ==
  IF ~Truthy(cache) THEN [dir |-> "", created |-> FALSE]
  ELSE IF ~isdir(d, cache.sv)
       THEN (IF d[cache.sv] = "absent" THEN [dir |-> cache.sv, created |-> TRUE]
             ELSE [dir |-> "", created |-> FALSE])
  ELSE IF ~access(d, cache.sv) THEN [dir |-> "", created |-> FALSE]
  ELSE [dir |-> cache.sv, created |-> FALSE]

\* the server a manager of this kind fetches from after construction
EffectiveServer(kind, server) ==
  CASE kind = "stamen" -> StamenServer
    [] kind = "google" -> GoogleServer
    [] OTHER -> IF Truthy(server) THEN server.sv ELSE OsmServer

\* MapManager.__init__ followed by the subclass's own __init__: the manager
\* built (st = "failed" when __init__ raises) and the directories afterwards
MapManagerInit(kind, cache, server, e, d) ==
  LET conf == ConfiguredCache(cache, d)
      d1 == IF conf.created THEN [d EXCEPT ![cache.sv] = "rw"] ELSE d
      dir == IF conf.dir # "" THEN conf.dir ELSE TempCandidate(e)
      raised == conf.dir = "" /\ ~access(d1, dir)
      base == IF Truthy(server) THEN server.sv ELSE OsmServer
      hist == [NoManager EXCEPT !.cacheArg = cache, !.serverArg = server,
                                !.cachePre = IF Truthy(cache) THEN d[cache.sv] ELSE "",
                                !.created = conf.created]
  IN  [dirs |-> d1,
       m |-> IF raised THEN [hist EXCEPT !.st = "failed"]
             ELSE [hist EXCEPT !.st = "ok", !.cache = dir,
                               !.server = EffectiveServer(kind, server),
                               !.cache_prefix = "mappie-" \o Md5Hex5(base) \o "-"]]

\* ------------------------------------------------------------------- state
VARIABLES
  env,      \* the environment variables TMPDIR, TMP, TEMP ("" when unset)
  dirs,     \* what each directory of DirPaths is
  files,    \* the cache files: path -> the URL its content was downloaded from
  mgr,      \* the three managers
  call,     \* the create_map call in progress, or the last one ended
  ncalls,   \* the create_map calls begun
  nextId,   \* the identity of the next image created
  fetchLog, \* the invocations of the fetcher, in order
  completed, \* the create_map calls that returned: manager, box, zoom, maptype
  handed,   \* the images create_map calls returned, as they were on return
  geo       \* a point, a zoom and what the coordinate functions made of them

vars == << env, dirs, files, mgr, call, ncalls, nextId, fetchLog, completed,
           handed, geo >>

NoCall ==
  [phase |-> "idle", m |-> "", bbox |-> << >>, zoom |-> 0, kw |-> << >>,
   minX |-> 0, minY |-> 0, maxX |-> 0, maxY |-> 0, x |-> 0, y |-> 0,
   fname |-> "", fetches |-> 0, retrieved |-> << >>, hadImage |-> NoImage,
   hadFiles |-> {}, repeat |-> FALSE,
   err |-> [kind |-> "", what |-> "", url |-> ""],
   result |-> [img |-> 0, bounds |-> << >>]]

\* no point: the coordinate functions have been applied to nothing
NoGeo ==
  [op |-> "none", lon |-> 0, lat |-> 0, zoom |-> 0, x |-> 0, y |-> 0,
   tile |-> << >>, nw |-> << >>, se |-> << >>, shifted |-> << >>, err |-> ""]

\* ------------------------------------------------------------ the cache
PyLon(l) == [t |-> "lon", xv |-> l]

isfile(f, path) == path \in DOMAIN f

\* the file system after the content is written to path
WriteFile(f, path, content) ==
  [p \in DOMAIN f \cup {path} |-> IF p = path THEN content ELSE f[p]]

\* what a download that broke off leaves in the destination file
Partial == "<partial>"

\* get_local_filename without the map type
get_local_filename_notype(self, tile_coord, zoom) ==
  self.cache \o "/" \o self.cache_prefix \o "_"
    \o ToString(zoom) \o "_" \o FmtD(tile_coord[1]) \o "_" \o FmtD(tile_coord[2])
    \o ".png"

\* MapManager.get_local_filename: path.join(self.cache, "%s%s_%d_%d_%d.png")
get_local_filename(self, tile_coord, zoom) ==
  self.cache \o "/" \o self.cache_prefix \o FmtS(self.maptype) \o "_"
    \o ToString(zoom) \o "_" \o FmtD(tile_coord[1]) \o "_" \o FmtD(tile_coord[2])
    \o ".png"

\* MapManager.get_tile_url: self.server + "/%s/%d/%d/%d.png"
MapManager_get_tile_url(self, tile_coord, zoom) ==
  self.server \o "/" \o FmtS(self.maptype) \o "/" \o ToString(zoom) \o "/"
    \o FmtD(tile_coord[1]) \o "/" \o FmtD(tile_coord[2]) \o ".png"

\* GoogleManager.get_tile_url; tile_coord is the bounding box.  The markers
\* and paths parts are empty: create_map lets no non-empty value through.
\* re.sub('[&]+', '&', ...) leaves one "&" of the server's "?&&sensor=false".
GoogleManager_get_tile_url(self, bbox, zoom) ==
  LET center_url == "center=" \o FmtDeg20(bbox[1].dv + bbox[2].dv) \o ","
                      \o FmtLon(Mean(bbox[3].xv, bbox[4].xv))
      zoom_url == "zoom=" \o ToString(zoom)
      size_url == "size=" \o ToString(self.size.qv[1]) \o "x" \o ToString(self.size.qv[2])
      scale_url == "scale=" \o FmtS(self.scale)
      format_url == "format=png8"
      maptype_url == "maptype=" \o FmtS(self.maptype)
      style_url == IF Truthy(self.style) THEN "style=" \o FmtS(self.style) ELSE ""
      markers_url == ""
      paths_url == ""
  IN  JoinNonEmpty(<< "http://maps.googleapis.com/maps/api/staticmap?&sensor=false",
                      center_url, zoom_url, size_url, scale_url, format_url,
                      maptype_url, style_url, markers_url, paths_url >>)

get_tile_url(kind, self, tile_coord, zoom) ==
  IF kind = "google" THEN GoogleManager_get_tile_url(self, tile_coord, zoom)
  ELSE MapManager_get_tile_url(self, tile_coord, zoom)

\* MustFetch without the test for the file
MustFetchAlways(f, filename) == TRUE

\* the test of MapManager.retrieve_tile_image: download only when no file is there
MustFetch(f, filename) == ~isfile(f, filename)

\* ------------------------------------------------------------ the images
\* PrepareRaises letting every call through
PrepareRaisesNever(image, overwrite) == FALSE

\* ImageManager.prepare_image raises when an image is held and overwrite is off
PrepareRaises(image, overwrite) == image # NoImage /\ ~overwrite

\* PILImageManager.create_image
create_image(id, mode, width, height) ==
  [id |-> id, mode |-> mode, w |-> width, h |-> height, pastes |-> << >>]

\* the mode create_map sets from the color argument
ColorMode(color) == IF IsStrIn(color, {"bw"}) THEN "L" ELSE "RGBA"

\* overwrite = kwargs.get('overwrite'); None becomes True
Overwrite(kw) == IF kw.overwrite.t = "none" THEN PyBool(TRUE) ELSE kw.overwrite

\* ------------------------------------------------------------ create_map
Raise(c, kind, what, url) ==
  [c EXCEPT !.phase = "error", !.err = [kind |-> kind, what |-> what, url |-> url]]

Callable(m) ==
  /\ mgr[m].st = "ok"
  /\ call.phase \in {"idle", "returned", "error"}
  /\ ncalls < MaxCalls

\* what identifies a request: the manager, the box, the zoom and the map type
Request(m, req, maptype) ==
  [m |-> m, bbox |-> req.bbox, zoom |-> req.zoom, maptype |-> maptype]

NewCall(m, req) ==
  [NoCall EXCEPT !.m = m, !.bbox = req.bbox, !.zoom = req.zoom, !.kw = req.kw,
                 !.hadImage = mgr[m].image, !.hadFiles = DOMAIN files]

\* GridWidth one tile short
GridWidthShort(minX, maxX) == (maxX - minX) * TileSize

\* the pixel width and height of the grid of tiles
GridWidth(minX, maxX) == (maxX - minX + 1) * TileSize
GridHeight(minY, maxY) == (maxY - minY + 1) * TileSize

\* MapManager.create_map up to the first tile, for the manager m whose
\* subclass has set self.maptype to maptype
MapManager_create_map(m, maptype, req) ==
  LET kw == req.kw
      b == req.bbox
      c0 == [NewCall(m, req) EXCEPT !.repeat = Request(m, req, maptype) \in completed]
      self == [mgr[m] EXCEPT !.maptype = maptype, !.mode = ColorMode(kw.color)]
      overwrite == Overwrite(kw)
      topleft == get_tile_coord(b[3], b[2], req.zoom)
      bottomright == get_tile_coord(b[4], b[1], req.zoom)
      minX == topleft[1]
      minY == topleft[2]
      maxX == bottomright[1]
      maxY == bottomright[2]
      nw == tile_nw_latlon(topleft, req.zoom)
      se == tile_nw_latlon(<< maxX + 1, maxY + 1 >>, req.zoom)
      bounds == << se[1], nw[1], nw[2], se[2] >>
      image == create_image(nextId, self.mode, GridWidth(minX, maxX),
                            GridHeight(minY, maxY))
      c1 == [c0 EXCEPT !.minX = minX, !.minY = minY, !.maxX = maxX, !.maxY = maxY,
                       !.x = minX, !.y = minY,
                       !.result = [img |-> 0, bounds |-> bounds]]
  IN  IF overwrite.t # "bool"
      THEN /\ mgr' = [mgr EXCEPT ![m] = self]
           /\ call' = Raise(c0, "Exception", "overwrite", "")
           /\ UNCHANGED nextId
      ELSE IF PrepareRaises(self.image, overwrite.bv)
      THEN /\ mgr' = [mgr EXCEPT ![m] = self]
           /\ call' = Raise(c0, "Exception", "prepared", "")
           /\ UNCHANGED nextId
      ELSE /\ mgr' = [mgr EXCEPT ![m] = [self EXCEPT !.image = image]]
           /\ nextId' = nextId + 1
           /\ call' = IF minX > maxX \/ minY > maxY
                      THEN [c1 EXCEPT !.phase = "returned", !.result.img = image.id]
                      ELSE [c1 EXCEPT !.phase = "retrieve"]

OSMManager_create_map(req) ==
  /\ Callable("osm")
  /\ MapManager_create_map("osm", PyStr(""), req)
  /\ ncalls' = ncalls + 1
  /\ UNCHANGED << env, dirs, files, fetchLog, completed, handed, geo >>

StamenTypes == {"terrain", "watercolor", "toner"}

\* StamenRejects without the test of membership
StamenRejectsNonStr(kw) == Truthy(kw.maptype) /\ kw.maptype.t # "str"

\* whether StamenManager.create_map raises on the maptype argument
StamenRejects(kw) == Truthy(kw.maptype) /\ ~IsStrIn(kw.maptype, StamenTypes)

StamenManager_create_map(req) ==
  /\ Callable("stamen")
  /\ IF StamenRejects(req.kw)
     THEN /\ call' = Raise(NewCall("stamen", req), "ValueError", "maptype", "")
          /\ UNCHANGED << mgr, nextId >>
     ELSE MapManager_create_map("stamen",
            IF Truthy(req.kw.maptype) THEN req.kw.maptype ELSE PyStr("terrain"), req)
  /\ ncalls' = ncalls + 1
  /\ UNCHANGED << env, dirs, files, fetchLog, completed, handed, geo >>

\* the argument retrieve_tile_image gets in the call in progress
TileCoord(c) ==
  IF c.m = "google"
  THEN << PyDeg(c.bbox[1]), PyDeg(c.bbox[2]), PyLon(c.bbox[3]), PyLon(c.bbox[4]) >>
  ELSE << PyInt(c.x), PyInt(c.y) >>

FetchOutcomes == {"ok", "fail", "failpartial"}

\* AfterFetch with the failure of the download swallowed
AfterFetchSwallowed(c, outcome, url) == [c EXCEPT !.phase = "paste"]

\* the try/except around urllib.urlretrieve: the call goes on to the paste
\* when the download succeeds and raises, naming the URL, when it fails
AfterFetch(c, outcome, url) ==
  IF outcome = "ok" THEN [c EXCEPT !.phase = "paste"]
  ELSE Raise(c, "Exception", "fetch", url)

\* MapManager.retrieve_tile_image for the current tile; outcome is what
\* urllib.urlretrieve does when it is called
retrieve_tile_image(outcome) ==
  /\ call.phase = "retrieve"
  /\ LET self == mgr[call.m]
         tile_coord == TileCoord(call)
         filename == get_local_filename(self, tile_coord, call.zoom)
         url == get_tile_url(call.m, self, tile_coord, call.zoom)
         c1 == [call EXCEPT !.fname = filename,
                            !.retrieved = Append(@, << call.x, call.y >>)]
     IN  IF MustFetch(files, filename)
         THEN /\ fetchLog' = Append(fetchLog,
                   [m |-> call.m, key |-> << self.maptype, call.zoom, tile_coord >>,
                    url |-> url, path |-> filename, ok |-> outcome = "ok"])
              /\ files' = CASE outcome = "ok" -> WriteFile(files, filename, url)
                            [] outcome = "failpartial" -> WriteFile(files, filename, Partial)
                            [] OTHER -> files
              /\ call' = AfterFetch([c1 EXCEPT !.fetches = @ + 1], outcome, url)
         ELSE /\ outcome = "ok"
              /\ call' = [c1 EXCEPT !.phase = "paste"]
              /\ UNCHANGED << files, fetchLog >>
  /\ UNCHANGED << env, dirs, mgr, ncalls, nextId, completed, handed, geo >>

\* PasteOffset with the column and the row exchanged
PasteOffsetSwapped(c, x, y) ==
  IF c.m = "google" THEN << 0, 0 >>
  ELSE << TileSize * (y - c.minY), TileSize * (x - c.minX) >>

\* the pixel offset create_map pastes the tile (x, y) at
PasteOffset(c, x, y) ==
  IF c.m = "google" THEN << 0, 0 >>
  ELSE << TileSize * (x - c.minX), TileSize * (y - c.minY) >>

\* the box GoogleManager.create_map returns: (new_minlat, new_maxlat,
\* new_minlon, new_maxlon) from XYToLL around the center of the box asked for
GoogleBounds(size, bbox, zoom) ==
  LET centX == Mean(bbox[3], bbox[4])
      centY == (bbox[1] + bbox[2]) \div 2
      nw == XYToLL((-size[1]) \div 2, (-size[2]) \div 2, centX, centY, zoom)
      se == XYToLL(size[1] \div 2, size[2] \div 2, centX, centY, zoom)
  IN  << se[2], nw[2], nw[1], se[1] >>

\* ImageManager.paste_image_file of the file just retrieved, then the rest of
\* the loop step: the next tile, or the return after the last one
paste_image_file ==
  /\ call.phase = "paste"
  /\ LET self == mgr[call.m]
         xy == PasteOffset(call, call.x, call.y)
         last == call.m = "google" \/ (call.x = call.maxX /\ call.y = call.maxY)
         pasted == [self.image EXCEPT !.pastes =
                      Append(@, [file |-> call.fname, content |-> files[call.fname],
                                 tile |-> << call.x, call.y >>, xy |-> xy])]
     IN  IF files[call.fname] = Partial
         THEN /\ call' = Raise(call, "Exception", "load", "")
              /\ UNCHANGED << mgr, completed, handed >>
         ELSE /\ mgr' = [mgr EXCEPT ![call.m].image = pasted]
              /\ call' =
                   IF last
                   THEN [call EXCEPT !.phase = "returned", !.result.img = self.image.id,
                           !.result.bounds =
                              IF call.m = "google"
                              THEN GoogleBounds(self.size.qv, call.bbox, call.zoom)
                              ELSE @]
                   ELSE IF call.y < call.maxY
                   THEN [call EXCEPT !.phase = "retrieve", !.y = @ + 1]
                   ELSE [call EXCEPT !.phase = "retrieve", !.x = @ + 1, !.y = call.minY]
              /\ completed' =
                   IF last
                   THEN completed \cup
                          {[m |-> call.m, bbox |-> call.bbox, zoom |-> call.zoom,
                            maptype |-> self.maptype]}
                   ELSE completed
              \* return (self.manager.get_image(), ...): the held image itself
              /\ handed' = IF last THEN handed \cup {pasted} ELSE handed
  /\ UNCHANGED << env, dirs, files, ncalls, nextId, fetchLog, geo >>

GoogleTypes == {"terrain", "satellite", "roadmap", "hybrid"}

\* not isinstance(self.size, tuple) or not all([s>0 and s <= 640 for s in self.size])
GoogleSizeRejected(size) ==
  \/ size.t # "tuple"
  \/ ~ \A i \in 1..Len(size.qv) : size.qv[i] > 0 /\ size.qv[i] <= MaxSize

\* GoogleManager.create_map up to the download.  Each attribute is assigned
\* from the arguments before it is checked.  isinstance(markers, list) and
\* isinstance(paths, list) name variables that do not exist, so reaching
\* either line raises NameError.
GoogleManager_create_map(req) ==
  /\ Callable("google")
  /\ LET kw == req.kw
         c0 == NewCall("google", req)
         s1 == [mgr["google"] EXCEPT !.maptype = kw.maptype]
         s2 == [s1 EXCEPT !.maptype = IF Truthy(@) THEN @ ELSE PyStr("terrain"),
                          !.size = kw.size]
         s3 == [s2 EXCEPT !.size = IF Truthy(@) THEN @ ELSE PyTuple(<< 256, 256 >>),
                          !.scale = kw.scale]
         s4 == [s3 EXCEPT !.scale = IF Truthy(@) THEN @ ELSE PyInt(2),
                          !.style = kw.style]
         s5 == [s4 EXCEPT !.markers = kw.markers]
         s6 == [s5 EXCEPT !.paths = kw.paths]
         self == [s6 EXCEPT !.mode = ColorMode(kw.color)]
         overwrite == Overwrite(kw)
         pix_width == self.scale.nv * self.size.qv[2]
         pix_height == self.scale.nv * self.size.qv[1]
         image == create_image(nextId, self.mode, pix_width, pix_height)
         fails(s, kind, what) ==
           /\ mgr' = [mgr EXCEPT !["google"] = s]
           /\ call' = Raise(c0, kind, what, "")
           /\ UNCHANGED nextId
     IN  IF Truthy(kw.maptype) /\ ~IsStrIn(kw.maptype, GoogleTypes)
           THEN fails(s1, "ValueError", "maptype")
         ELSE IF Truthy(kw.size) /\ GoogleSizeRejected(kw.size)
           THEN fails(s2, "ValueError", "size")
         ELSE IF Truthy(kw.scale) /\ ~(kw.scale.t = "int" /\ kw.scale.nv \in {1, 2, 4})
           THEN fails(s3, "ValueError", "scale")
         ELSE IF Truthy(kw.style) /\ kw.style.t # "str"
           THEN fails(s4, "ValueError", "style")
         ELSE IF Truthy(kw.markers)
           THEN fails(s5, "NameError", "markers")
         ELSE IF Truthy(kw.paths)
           THEN fails(s6, "NameError", "paths")
         ELSE IF overwrite.t # "bool"
           THEN fails(self, "Exception", "overwrite")
         ELSE IF PrepareRaises(self.image, overwrite.bv)
           THEN fails(self, "Exception", "prepared")
         ELSE /\ mgr' = [mgr EXCEPT !["google"] = [self EXCEPT !.image = image]]
              /\ nextId' = nextId + 1
              /\ call' = [c0 EXCEPT !.phase = "retrieve"]
  /\ ncalls' = ncalls + 1
  /\ UNCHANGED << env, dirs, files, fetchLog, completed, handed, geo >>

\* ---------------------------------------------------------------- requests
\* the abscissa px + sub/SubPix pixels
Absc(px, sub) == px * SubPix + sub

NoKw ==
  [maptype |-> PyNone, size |-> PyNone, scale |-> PyNone, style |-> PyNone,
   markers |-> PyNone, paths |-> PyNone, color |-> PyNone, overwrite |-> PyNone]

\* zoom 4, tiles [5,7] x [10,11]: latitudes -60.0 to -45.0
GridBox ==
  [bbox |-> << -600, -450, Absc(5 * TileSpan(4) + 1000, 1), Absc(7 * TileSpan(4) + 5, 0) >>,
   zoom |-> 4]

\* zoom 4, inside the tile (5,10): latitudes -50.0 to -45.0
OneBox ==
  [bbox |-> << -500, -450, Absc(5 * TileSpan(4) + 1000, 1), Absc(5 * TileSpan(4) + 2000, 3) >>,
   zoom |-> 4]

\* zoom 1, inside the tile (0,0): latitudes 10.5 to 40.5, western longitudes
LowBox ==
  [bbox |-> << 105, 405, Absc(TileSpan(3), 0), Absc(TileSpan(2), 2) >>, zoom |-> 1]

TileBoxes == {GridBox, OneBox, LowBox}

OverwriteKws ==
  { [NoKw EXCEPT !.overwrite = v] : v \in {PyBool(FALSE), PyBool(TRUE), PyStr("yes")} }

OsmKws == {NoKw} \cup OverwriteKws

StamenKws ==
  OsmKws \cup {[NoKw EXCEPT !.color = PyStr("bw")]}
         \cup { [NoKw EXCEPT !.maptype = v] : v \in {PyStr("toner"), PyStr("bogus")} }

Reqs(boxes, kws) == { [bbox |-> b.bbox, zoom |-> b.zoom, kw |-> k] : b \in boxes, k \in kws }

\* latitudes 5.5 to 10.5 at zoom 4, and 40.0 to 41.0 at zoom 21
GoogleBoxes ==
  { [bbox |-> << 55, 105, Absc(3 * TileSpan(3) + 17, 1) - 4096, Absc(3 * TileSpan(3) + 17, 1) + 4096 >>,
     zoom |-> 4],
    [bbox |-> << 400, 410, Absc(5 * TileSpan(3) + 40, 3) - 4096, Absc(5 * TileSpan(3) + 40, 3) + 4096 >>,
     zoom |-> RefZoom] }

GoogleKws ==
  OverwriteKws
  \cup { [NoKw EXCEPT !.maptype = v] : v \in {PyNone, PyStr("roadmap"), PyStr("bogus")} }
  \cup { [NoKw EXCEPT !.size = PyTuple(v)] :
            v \in {<< 640, 640 >>, << 3, 5 >>, << 1, 1 >>, << 640, 320 >>,
                   << 641, 10 >>, << 10, 0 >>} }
  \cup { [NoKw EXCEPT !.size = PyList(<< 10, 10 >>)] }
  \cup { [NoKw EXCEPT !.scale = PyInt(v)] : v \in {1, 2, 3, 4} }
  \cup { [NoKw EXCEPT !.style = v] : v \in {PyStr("feature:road"), PyInt(7)} }
  \cup { [NoKw EXCEPT !.markers = v] : v \in {PyPoints(<< << 80, 170 >> >>), PyStr("here")} }
  \cup { [NoKw EXCEPT !.paths = v] : v \in {PyPaths(<< << << 80, 170 >>, << 81, 171 >> >> >>), PyStr("there")} }

OsmReqs == Reqs({OneBox, LowBox}, OsmKws)
StamenReqs == Reqs({GridBox, OneBox}, StamenKws)
GoogleReqs == Reqs(GoogleBoxes, GoogleKws)
\* the requests made of the Stamen manager next to those of the Google manager
StamenFewReqs == Reqs({OneBox}, StamenKws)

\* ------------------------------------------------------------ construction
CacheArgs == {PyNone, PyStr(ConfiguredDir)}
ServerArgs == {PyNone, PyStr(CustomServer)}

Environments ==
  [TMPDIR : {"", "/scratch"}, TMP : {"", "/var/tmp"}, TEMP : {"", "/temp"}]

DirStates ==
  { d \in [DirPaths -> {"rw", "noaccess", "absent", "nocreate"}] :
      \A p \in TempDirs : d[p] \in {"rw", "noaccess"} }

\* m = kind(cache=..., server=...)
Construct(m, cache, server) ==
  /\ mgr[m].st = "none"
  /\ call.phase = "idle"
  /\ LET r == MapManagerInit(m, cache, server, env, dirs)
     IN  /\ mgr' = [mgr EXCEPT ![m] = r.m]
         /\ dirs' = r.dirs
  /\ UNCHANGED << env, files, call, ncalls, nextId, fetchLog, completed, handed, geo >>

InitCtor ==
  /\ env \in Environments
  /\ dirs \in DirStates
  /\ files = << >>
  /\ mgr = [m \in Managers |-> NoManager]
  /\ call = NoCall
  /\ ncalls = 0
  /\ nextId = 1
  /\ fetchLog = << >>
  /\ completed = {}
  /\ handed = {}
  /\ geo = NoGeo

NextCtor ==
  \E m \in Managers, cache \in CacheArgs, server \in ServerArgs :
     Construct(m, cache, server)

SpecCtor == InitCtor /\ [][NextCtor]_vars

\* ------------------------------------------------------- the specification
\* the three managers built without arguments, in an environment without
\* TMPDIR, TMP and TEMP and with /tmp readable and writable
DefaultEnv == [TMPDIR |-> "", TMP |-> "", TEMP |-> ""]
DefaultDirs == [p \in DirPaths |-> IF p = ConfiguredDir THEN "absent" ELSE "rw"]

Init ==
  /\ env = DefaultEnv
  /\ dirs = DefaultDirs
  /\ files = << >>
  /\ mgr = [m \in Managers |-> MapManagerInit(m, PyNone, PyNone, DefaultEnv, DefaultDirs).m]
  /\ call = NoCall
  /\ ncalls = 0
  /\ nextId = 1
  /\ fetchLog = << >>
  /\ completed = {}
  /\ handed = {}
  /\ geo = NoGeo

Next ==
  \/ \E req \in OsmReqs : OSMManager_create_map(req)
  \/ \E req \in StamenReqs : StamenManager_create_map(req)
  \/ \E outcome \in FetchOutcomes : retrieve_tile_image(outcome)
  \/ paste_image_file

\* the tile based managers
Spec == Init /\ [][Next]_vars

NextGoogle ==
  \/ \E req \in GoogleReqs : GoogleManager_create_map(req)
  \/ \E req \in StamenFewReqs : StamenManager_create_map(req)
  \/ \E outcome \in FetchOutcomes : retrieve_tile_image(outcome)
  \/ paste_image_file

\* the Google manager, next to a Stamen manager sharing its cache directory
SpecGoogle == Init /\ [][NextGoogle]_vars

\* ------------------------------------------ the coordinate functions alone
\* the longitudes -180, 0 and 180, a tile boundary of zoom 3 and points off
\* the whole pixels
WestEdge == 0
EastEdge == Absc(2 * OFFSET, 0)
GeoLons ==
  {WestEdge, EastEdge, Absc(OFFSET, 0), Absc(3 * TileSpan(3), 0),
   Absc(5 * TileSpan(4) + 1000, 1), Absc(7 * TileSpan(4) + 5, SubPix - 1)}

\* the latitudes MercY is tabulated for, in tenths of a degree
GeoLats == {-850, -600, -500, -450, 0, 55, 80, 105, 400, 405, 410, 850}

GeoZooms == {0, 1, 4, RefZoom, RefZoom + 1}

\* the pixel offsets XYToLL is called with
GeoOffsets == {-2, 0, 1}

\* the points and zooms; the eastern edge goes with the zooms at which the
\* corner of the tile after it is within the model's integers
GeoInputs ==
  { g \in { [NoGeo EXCEPT !.op = "point", !.lon = lon, !.lat = lat, !.zoom = zoom] :
               lon \in GeoLons, lat \in GeoLats, zoom \in GeoZooms } :
      g.lon = EastEdge => g.zoom >= 4 }

\* tile = self.get_tile_coord(lon, lat, zoom)
Call_get_tile_coord ==
  /\ geo.op = "point"
  /\ geo' = [geo EXCEPT !.op = "tile",
                         !.tile = get_tile_coord(geo.lon, geo.lat, geo.zoom)]
  /\ UNCHANGED << env, dirs, files, mgr, call, ncalls, nextId, fetchLog,
                  completed, handed >>

\* self.tile_nw_latlon(tile, zoom) and self.tile_nw_latlon((x+1, y+1), zoom),
\* as create_map calls it for the two corners of its box
Call_tile_nw_latlon ==
  /\ geo.op = "tile"
  /\ geo' = [geo EXCEPT !.op = "corners",
                         !.nw = tile_nw_latlon(geo.tile, geo.zoom),
                         !.se = tile_nw_latlon(<< geo.tile[1] + 1, geo.tile[2] + 1 >>,
                                               geo.zoom)]
  /\ UNCHANGED << env, dirs, files, mgr, call, ncalls, nextId, fetchLog,
                  completed, handed >>

\* XYToLL(x, y, lon, lat, zoom): the shift raises before anything is returned
Call_XYToLL(x, y) ==
  /\ geo.op = "point"
  /\ geo' = IF ShlRaises(RefZoom - geo.zoom)
            THEN [geo EXCEPT !.op = "raised", !.x = x, !.y = y, !.err = "ValueError"]
            ELSE [geo EXCEPT !.op = "shifted", !.x = x, !.y = y,
                             !.shifted = XYToLL(x, y, geo.lon, geo.lat, geo.zoom)]
  /\ UNCHANGED << env, dirs, files, mgr, call, ncalls, nextId, fetchLog,
                  completed, handed >>

InitGeo ==
  /\ env = DefaultEnv
  /\ dirs = DefaultDirs
  /\ files = << >>
  /\ mgr = [m \in Managers |-> MapManagerInit(m, PyNone, PyNone, DefaultEnv, DefaultDirs).m]
  /\ call = NoCall
  /\ ncalls = 0
  /\ nextId = 1
  /\ fetchLog = << >>
  /\ completed = {}
  /\ handed = {}
  /\ geo \in GeoInputs

NextGeo ==
  \/ Call_get_tile_coord
  \/ Call_tile_nw_latlon
  \/ \E x \in GeoOffsets, y \in GeoOffsets : Call_XYToLL(x, y)

\* the coordinate functions applied to a point
SpecGeo == InitGeo /\ [][NextGeo]_vars

\* ================================================================ claims
TileManagers == {"osm", "stamen"}

\* the call in progress has allocated its surface
Stitching == call.phase \in {"retrieve", "paste", "returned"}
               \/ (call.phase = "error" /\ call.err.what \in {"fetch", "load"})

\* no invocation of the fetcher has failed so far
FetcherNeverFailed == \A i \in DOMAIN fetchLog : fetchLog[i].ok

\* C1: with a fetcher that always succeeds, a tile based manager invokes the
\* fetcher at most once per key (maptype, zoom, x, y), never for a key whose
\* file exists, and a create_map repeating a request that returned invokes
\* it zero times.
C1_FetchOncePerKey ==
  FetcherNeverFailed =>
    /\ \A i, j \in DOMAIN fetchLog :
         ( /\ fetchLog[i].m \in TileManagers
           /\ fetchLog[i].m = fetchLog[j].m
           /\ fetchLog[i].key = fetchLog[j].key ) => i = j
    /\ (call.m \in TileManagers /\ call.repeat) => call.fetches = 0

C1_Witness ==
  /\ FetcherNeverFailed
  /\ call.m \in TileManagers
  /\ call.repeat
  /\ call.phase = "returned"
  /\ Len(call.retrieved) = 6
  /\ Len(fetchLog) = 6

\* the grid of tiles between the corner tiles of the box of the call
CornerNW(c) == get_tile_coord(c.bbox[3], c.bbox[2], c.zoom)
CornerSE(c) == get_tile_coord(c.bbox[4], c.bbox[1], c.zoom)
Grid(c) == (CornerNW(c)[1] .. CornerSE(c)[1]) \X (CornerNW(c)[2] .. CornerSE(c)[2])
Columns(c) == CornerSE(c)[1] - CornerNW(c)[1] + 1
Rows(c) == CornerSE(c)[2] - CornerNW(c)[2] + 1

SeqRange(q) == { q[i] : i \in DOMAIN q }

\* C2: a create_map of a tile based manager that returned has retrieved
\* exactly the tiles between its corner tiles, each once, and allocated a
\* surface of 256 pixels per column and per row; the box inside one tile
\* gives one tile and 256 x 256, the box over tiles [5,7] x [10,11] gives six
\* tiles and 768 x 512.
C2_GridRetrievedOnce ==
  (call.m \in TileManagers /\ call.phase = "returned") =>
    /\ SeqRange(call.retrieved) = Grid(call)
    /\ Len(call.retrieved) = Columns(call) * Rows(call)
    /\ mgr[call.m].image.id = call.result.img
    /\ mgr[call.m].image.w = Columns(call) * 256
    /\ mgr[call.m].image.h = Rows(call) * 256
    /\ (call.bbox = OneBox.bbox /\ call.zoom = OneBox.zoom) =>
          /\ Len(call.retrieved) = 1
          /\ mgr[call.m].image.w = 256 /\ mgr[call.m].image.h = 256
    /\ (call.bbox = GridBox.bbox /\ call.zoom = GridBox.zoom) =>
          /\ Grid(call) = (5 .. 7) \X (10 .. 11)
          /\ Len(call.retrieved) = 6
          /\ mgr[call.m].image.w = 768 /\ mgr[call.m].image.h = 512

C2_Witness ==
  /\ call.m \in TileManagers
  /\ call.phase = "returned"
  /\ Len(call.retrieved) = 6
  /\ mgr[call.m].image.w = 768

\* the pixels a paste covers
Region(p) == [x0 |-> p.xy[1], x1 |-> p.xy[1] + 256, y0 |-> p.xy[2], y1 |-> p.xy[2] + 256]
Disjoint(r, q) == r.x1 <= q.x0 \/ q.x1 <= r.x0 \/ r.y1 <= q.y0 \/ q.y1 <= r.y0

\* C3: while a tile based create_map stitches, the pastes are the tiles
\* retrieved so far in their order, each at (256*(x-minX), 256*(y-minY)),
\* their regions lie inside the surface and are pairwise disjoint, and after
\* the last paste every tile of the grid is pasted once and the regions
\* cover the surface.
C3_PastesDisjointAndCovering ==
  (call.m \in TileManagers /\ Stitching) =>
    LET img == mgr[call.m].image
        P == img.pastes
    IN  /\ Len(P) <= Len(call.retrieved)
        /\ \A i \in DOMAIN P :
             /\ P[i].tile = call.retrieved[i]
             /\ P[i].xy = << 256 * (P[i].tile[1] - CornerNW(call)[1]),
                             256 * (P[i].tile[2] - CornerNW(call)[2]) >>
             /\ Region(P[i]).x0 >= 0 /\ Region(P[i]).x1 <= img.w
             /\ Region(P[i]).y0 >= 0 /\ Region(P[i]).y1 <= img.h
        /\ \A i, j \in DOMAIN P :
             i # j => (P[i].tile # P[j].tile /\ Disjoint(Region(P[i]), Region(P[j])))
        /\ call.phase = "returned" =>
             /\ { P[i].tile : i \in DOMAIN P } = Grid(call)
             /\ Len(P) * 256 * 256 = img.w * img.h

C3_Witness ==
  /\ call.m \in TileManagers
  /\ call.phase = "returned"
  /\ Len(mgr[call.m].image.pastes) = 6

\* the invocations of the fetcher made by the call in progress
CallFetches ==
  { i \in DOMAIN fetchLog : i > Len(fetchLog) - call.fetches }

\* the URL of the tile (x, y) of the call in progress
TileUrl(c, x, y) ==
  mgr[c.m].server \o "/" \o mgr[c.m].maptype.sv \o "/" \o ToString(c.zoom) \o "/"
    \o ToString(x) \o "/" \o ToString(y) \o ".png"

\* C4: when the fetcher fails for a tile during a tile based create_map, the
\* call has ended with an error naming the URL of that tile, no image is
\* returned, the failed download was the call's last invocation of the
\* fetcher and its only one for that tile, and the failing tile is the last
\* one retrieved and is not pasted.
C4_FetchFailureAborts ==
  (call.m \in TileManagers /\ \E i \in CallFetches : ~fetchLog[i].ok) =>
    LET n == Len(fetchLog)
        t == call.retrieved[Len(call.retrieved)]
    IN  /\ call.phase = "error"
        /\ call.err.what = "fetch"
        /\ call.err.url = TileUrl(call, t[1], t[2])
        /\ t = << call.x, call.y >>
        /\ call.result.img = 0
        /\ ~fetchLog[n].ok
        /\ fetchLog[n].url = call.err.url
        /\ \A i \in CallFetches : fetchLog[i].url = call.err.url => i = n
        /\ Len(mgr[call.m].image.pastes) = Len(call.retrieved) - 1

C4_Witness ==
  /\ call.m \in TileManagers
  /\ call.phase = "error"
  /\ call.err.what = "fetch"
  /\ Len(call.retrieved) = 3
  /\ Len(mgr[call.m].image.pastes) = 2

\* the file name and the URL of a key of a tile based manager
KeyPath(m, key) ==
  mgr[m].cache \o "/" \o mgr[m].cache_prefix \o key[1].sv \o "_" \o ToString(key[2])
    \o "_" \o ToString(key[3][1].nv) \o "_" \o ToString(key[3][2].nv) \o ".png"
KeyUrl(m, key) ==
  mgr[m].server \o "/" \o key[1].sv \o "/" \o ToString(key[2]) \o "/"
    \o ToString(key[3][1].nv) \o "/" \o ToString(key[3][2].nv) \o ".png"

\* C6: within one tile based manager the file name is a function of the key
\* and distinct keys have distinct file names; the fetcher is invoked with
\* the URL of the key and the file of the key; every file a download
\* completed into holds the content of its own key's URL, and every tile
\* pasted is the content of the URL of its own key.
C6_FilesHoldOwnKey ==
  /\ \A i \in DOMAIN fetchLog :
       fetchLog[i].m \in TileManagers =>
         /\ fetchLog[i].path = KeyPath(fetchLog[i].m, fetchLog[i].key)
         /\ fetchLog[i].url = KeyUrl(fetchLog[i].m, fetchLog[i].key)
         /\ fetchLog[i].ok => files[fetchLog[i].path] = fetchLog[i].url
  /\ \A i, j \in DOMAIN fetchLog :
       ( /\ fetchLog[i].m \in TileManagers
         /\ fetchLog[i].m = fetchLog[j].m ) =>
           (fetchLog[i].path = fetchLog[j].path <=> fetchLog[i].key = fetchLog[j].key)
  /\ (call.m \in TileManagers /\ Stitching) =>
       \A i \in DOMAIN mgr[call.m].image.pastes :
         LET p == mgr[call.m].image.pastes[i]
         IN  p.content = TileUrl(call, p.tile[1], p.tile[2])

C6_Witness ==
  /\ call.m = "stamen"
  /\ call.phase = "returned"
  /\ call.fetches = 1
  /\ \E i, j \in DOMAIN fetchLog :
       /\ fetchLog[i].m = "stamen" /\ fetchLog[j].m = "osm"
       /\ fetchLog[i].ok /\ fetchLog[j].ok
       /\ fetchLog[i].key[2] = fetchLog[j].key[2]
       /\ fetchLog[i].key[3] = fetchLog[j].key[3]
       /\ fetchLog[i].path # fetchLog[j].path

\* the cache files a manager has pasted from or has just retrieved
PathsUsed(m) ==
  { mgr[m].image.pastes[i].file : i \in DOMAIN mgr[m].image.pastes }
    \cup (IF call.m = m /\ call.fname # "" THEN {call.fname} ELSE {})

\* C5: two managers that fetch from different servers never use the same
\* cache file path.
C5_NoSharedPath ==
  \A m1, m2 \in Managers :
    mgr[m1].server # mgr[m2].server => PathsUsed(m1) \cap PathsUsed(m2) = {}

\* the temp directories the environment names, and /tmp
Candidates == ({env.TMPDIR, env.TMP, env.TEMP} \ {""}) \cup {"/tmp"}

\* the first of TMPDIR, TMP, TEMP that is set, /tmp when none is
FirstCandidate ==
  LET order == << env.TMPDIR, env.TMP, env.TEMP, "/tmp" >>
      first == CHOOSE i \in 1..4 : order[i] # "" /\ \A j \in 1..(i - 1) : order[j] = ""
  IN  order[first]

\* the cache argument is given and names a usable or creatable directory
ConfiguredUsable(m) == Truthy(mgr[m].cacheArg) /\ mgr[m].cachePre \in {"rw", "absent"}

\* the part of C7 that holds as stated: the configured path is used when it
\* is a readable and writable directory, or after it is created
ConfiguredFirst(m) ==
  /\ (Truthy(mgr[m].cacheArg) /\ mgr[m].cachePre = "rw") =>
        (mgr[m].st = "ok" /\ mgr[m].cache = mgr[m].cacheArg.sv /\ ~mgr[m].created)
  /\ (Truthy(mgr[m].cacheArg) /\ mgr[m].cachePre = "absent") =>
        /\ mgr[m].st = "ok" /\ mgr[m].cache = mgr[m].cacheArg.sv
        /\ mgr[m].created /\ dirs[mgr[m].cacheArg.sv] = "rw"
  /\ mgr[m].st = "ok" => access(dirs, mgr[m].cache)

\* C7 as stated: the configured path first, else a temp directory among the
\* candidates, and construction fails only if no candidate is accessible.
C7_FailsOnlyIfNoCandidate ==
  \A m \in Managers :
    mgr[m].st # "none" =>
      /\ ConfiguredFirst(m)
      /\ (~ConfiguredUsable(m) /\ mgr[m].st = "ok") => mgr[m].cache \in Candidates
      /\ mgr[m].st = "failed" => \A p \in Candidates : ~access(dirs, p)

\* C7 amended: the configured path first, else the first candidate that is
\* set (TMPDIR, TMP, TEMP, else /tmp) and no other; construction fails
\* exactly when the configured path is not usable and that one directory is
\* not readable and writable.
C7_FirstCandidateOnly ==
  \A m \in Managers :
    mgr[m].st # "none" =>
      /\ ConfiguredFirst(m)
      /\ (~ConfiguredUsable(m) /\ mgr[m].st = "ok") => mgr[m].cache = FirstCandidate
      /\ mgr[m].st = "failed" <=>
           (~ConfiguredUsable(m) /\ ~access(dirs, FirstCandidate))

C7_Witness ==
  \E m \in Managers :
    /\ mgr[m].st = "failed"
    /\ mgr[m].cachePre = "nocreate"
    /\ env.TMPDIR = "" /\ env.TMP # ""
    /\ access(dirs, "/tmp")

Supplied(p) == p.t # "none"

\* the options of a GoogleManager.create_map call are valid
GoogleOptionsValid(kw) ==
  /\ Supplied(kw.maptype) =>
       (kw.maptype.t = "str" /\ kw.maptype.sv \in {"terrain", "satellite", "roadmap", "hybrid"})
  /\ Supplied(kw.size) =>
       (kw.size.t = "tuple" /\ \A i \in DOMAIN kw.size.qv : kw.size.qv[i] \in 1..640)
  /\ Supplied(kw.scale) => (kw.scale.t = "int" /\ kw.scale.nv \in {1, 2, 4})
  /\ Supplied(kw.style) => kw.style.t = "str"
  /\ Supplied(kw.markers) => kw.markers.t = "list"
  /\ Supplied(kw.paths) => kw.paths.t = "list"

\* the call has ended with an error other than a failed download or load
Rejected == call.phase = "error" /\ call.err.what \notin {"fetch", "load"}

\* C8: GoogleManager.create_map (overwrite left out) rejects exactly the
\* calls whose options are invalid; a call whose options are valid, a
\* non-empty list of markers or of paths included, is accepted.
C8_RejectsExactlyInvalid ==
  (call.m = "google" /\ call.phase # "idle" /\ call.kw.overwrite.t = "none") =>
    (Rejected <=> ~GoogleOptionsValid(call.kw))

\* an option of the call is invalid: a bad map type, a size or a scale out
\* of range, an overwrite that is no boolean
InvalidOption ==
  \/ ~(Supplied(call.kw.overwrite) => call.kw.overwrite.t = "bool")
  \/ /\ call.m = "stamen"
     /\ ~(Supplied(call.kw.maptype) =>
            (call.kw.maptype.t = "str" /\ call.kw.maptype.sv \in {"terrain", "watercolor", "toner"}))
  \/ /\ call.m = "google"
     /\ ~GoogleOptionsValid(call.kw)

\* C9: a create_map that ended with an error and has an invalid option has
\* invoked the fetcher zero times, has created no cache file and has left
\* the image of the image manager as it was.
C9_OptionErrorBeforeIO ==
  (call.phase = "error" /\ (InvalidOption \/ call.err.what \in
       {"maptype", "size", "scale", "style", "markers", "paths", "overwrite"})) =>
    /\ call.fetches = 0
    /\ call.retrieved = << >>
    /\ DOMAIN files = call.hadFiles
    /\ mgr[call.m].image = call.hadImage

C9_Witness ==
  /\ call.m = "google"
  /\ call.phase = "error"
  /\ call.err.what = "scale"
  /\ call.hadImage # NoImage
  /\ Len(call.hadImage.pastes) = 1

\* C10: the box GoogleManager.create_map returns has, in reference zoom
\* pixels, its west and east edges (w/2)*2^(21-zoom) to either side of
\* LonToX(center) and its north and south edges (h/2)*2^(21-zoom) to either
\* side of LatToY(center), and contains the center.
C10_SymmetricBox ==
  (call.m = "google" /\ call.phase = "returned") =>
    LET w == mgr["google"].size.qv[1]
        h == mgr["google"].size.qv[2]
        k == 2 ^ (21 - call.zoom)
        centerLon == Mean(call.bbox[3], call.bbox[4])
        centerLat == (call.bbox[1] + call.bbox[2]) \div 2
        b == call.result.bounds
        south == b[1] \div SubPix
        north == b[2] \div SubPix
        west == b[3] \div SubPix
        east == b[4] \div SubPix
    IN  /\ 2 * (LonToX(centerLon) - west) = w * k
        /\ 2 * (east - LonToX(centerLon)) = w * k
        /\ 2 * (LatToY(centerLat) - north) = h * k
        /\ 2 * (south - LatToY(centerLat)) = h * k
        /\ b[3] <= centerLon /\ centerLon <= b[4]
        /\ b[2] <= MercY(centerLat) /\ MercY(centerLat) <= b[1]

\* C11: the box a tile based create_map returns lies on tile boundaries and
\* contains the box asked for: new_minlat <= minlat, new_maxlat >= maxlat,
\* new_minlon <= minlon, new_maxlon >= maxlon, new_minlat <= new_maxlat and
\* new_minlon <= new_maxlon (a latitude compares by its ordinate, reversed).
C11_BoundsContainRequest ==
  (call.m \in TileManagers /\ call.phase = "returned") =>
    LET b == call.result.bounds
        span == SubPix * TileSpan(call.zoom)
    IN  /\ b[1] >= MercY(call.bbox[1])
        /\ b[2] <= MercY(call.bbox[2])
        /\ b[3] <= call.bbox[3]
        /\ b[4] >= call.bbox[4]
        /\ b[1] >= b[2]
        /\ b[3] <= b[4]
        /\ \A i \in 1..4 : b[i] % span = 0

\* a returned call over several tiles whose box is strictly inside the
\* returned one on every side
C11_Witness ==
  /\ call.m \in TileManagers
  /\ call.phase = "returned"
  /\ call.maxX > call.minX /\ call.maxY > call.minY
  /\ call.result.bounds[1] > MercY(call.bbox[1])
  /\ call.result.bounds[2] < MercY(call.bbox[2])
  /\ call.result.bounds[3] < call.bbox[3]
  /\ call.result.bounds[4] > call.bbox[4]

\* C12: the tile get_tile_coord gives contains the point: its north-west
\* corner has longitude <= lon and latitude >= lat, and the north-west corner
\* of tile (x+1, y+1) has longitude > lon and latitude < lat.
C12_TileContainsPoint ==
  geo.op = "corners" =>
    /\ geo.nw[2] <= geo.lon
    /\ geo.nw[1] <= MercY(geo.lat)
    /\ geo.se[2] > geo.lon
    /\ geo.se[1] > MercY(geo.lat)

\* the corners of the tile of a point strictly inside it
C12_Witness ==
  /\ geo.op = "corners"
  /\ geo.nw[2] < geo.lon
  /\ geo.nw[1] < MercY(geo.lat)
  /\ geo.tile[1] > 0 /\ geo.tile[2] > 0

\* C13: get_tile_coord gives tile indices with 0 <= tileX < 2^z and
\* 0 <= tileY < 2^z, tileX being the floor of (lon+180)/360 * 2^z, for every
\* longitude from -180 to 180 and every latitude between the limits.
C13_TileInRange ==
  geo.op \in {"tile", "corners"} =>
    /\ 0 <= geo.tile[1] /\ geo.tile[1] < Pow2(geo.zoom)
    /\ 0 <= geo.tile[2] /\ geo.tile[2] < Pow2(geo.zoom)
    /\ geo.tile[1] = geo.lon \div (SubPix * TileSpan(geo.zoom))

\* C13 away from the eastern edge: for longitudes below 180 the indices are
\* within range
C13_InRangeBelowEastEdge ==
  (geo.op \in {"tile", "corners"} /\ geo.lon < EastEdge) => C13_TileInRange

\* C14 as stated: XYToLL(0, 0, lon, lat, zoom) returns exactly (lon, lat).
C14_ExactIdentity ==
  (geo.op = "shifted" /\ geo.x = 0 /\ geo.y = 0) =>
    geo.shifted = << geo.lon, MercY(geo.lat) >>

\* C14 amended: XYToLL(0, 0, lon, lat, zoom) returns the point of the whole
\* reference-zoom pixel nearest to (lon, lat), a half going up: it is (lon, lat)
\* itself only for a point on a whole pixel.
C14_NearestPixel ==
  (geo.op = "shifted" /\ geo.x = 0 /\ geo.y = 0) =>
    LET rx == geo.shifted[1]
        ry == geo.shifted[2]
        lat == MercY(geo.lat)
    IN  /\ rx % SubPix = 0 /\ ry % SubPix = 0
        /\ 2 * (rx - geo.lon) <= SubPix /\ 2 * (geo.lon - rx) < SubPix
        /\ 2 * (ry - lat) <= SubPix /\ 2 * (lat - ry) < SubPix
        /\ (geo.lon % SubPix = 0 /\ lat % SubPix = 0) => geo.shifted = << geo.lon, lat >>

\* a zero shift that moved the longitude off the one given
C14_Witness ==
  /\ geo.op = "shifted"
  /\ geo.x = 0 /\ geo.y = 0
  /\ geo.zoom < RefZoom
  /\ geo.shifted[1] > geo.lon

\* the call of XYToLL has ended, one way or the other
XYToLLEnded == geo.op \in {"shifted", "raised"}

\* C15 as stated: XYToLL with zoom > 21 does not end with an error but
\* returns a coordinate pair.
C15_NotRejected ==
  (XYToLLEnded /\ geo.zoom > RefZoom) => (geo.err = "" /\ geo.shifted # << >>)

\* C15 amended: XYToLL with zoom > 21 ends with ValueError, raised by the
\* shift by a negative count, and returns nothing; with zoom <= 21 it returns
\* a pair.
C15_ShiftRaises ==
  XYToLLEnded =>
    IF geo.zoom > RefZoom
    THEN geo.op = "raised" /\ geo.err = "ValueError" /\ geo.shifted = << >>
    ELSE geo.op = "shifted" /\ geo.err = "" /\ Len(geo.shifted) = 2

\* XYToLL called beyond the reference zoom with a zero and a non-zero offset
C15_Witness ==
  /\ geo.op = "raised"
  /\ geo.zoom = RefZoom + 1
  /\ geo.x = 0 /\ geo.y # 0

\* C16: GoogleManager.create_map with size (w, h) and scale s allocates a
\* surface s*w pixels wide and s*h pixels high and pastes the one image
\* downloaded at (0, 0).
C16_SurfaceMatchesSize ==
  (call.m = "google" /\ Stitching) =>
    LET self == mgr["google"]
    IN  /\ self.image.w = self.scale.nv * self.size.qv[1]
        /\ self.image.h = self.scale.nv * self.size.qv[2]
        /\ \A i \in DOMAIN self.image.pastes : self.image.pastes[i].xy = << 0, 0 >>

\* C16 for the sizes with w = h, where exchanging the two does not show
C16_SquareSurface ==
  (call.m = "google" /\ Stitching
     /\ mgr["google"].size.qv[1] = mgr["google"].size.qv[2]) => C16_SurfaceMatchesSize

\* the call began with the manager holding an image
HeldBefore == call.phase # "idle" /\ call.hadImage # NoImage

\* C17: when the manager holds an image, a create_map with overwrite=False
\* ends with an error before any fetch and leaves the held image as it was;
\* with overwrite=True or left out, a call that gets to allocating holds a
\* fresh surface; and an image a call returned, where it is still held, is as
\* it was returned.
C17_OverwriteGuardsHeldImage ==
  /\ (HeldBefore /\ call.kw.overwrite = PyBool(FALSE)) =>
        /\ call.phase = "error"
        /\ call.fetches = 0
        /\ DOMAIN files = call.hadFiles
        /\ mgr[call.m].image = call.hadImage
  /\ (HeldBefore /\ Stitching /\ call.kw.overwrite \in {PyNone, PyBool(TRUE)}) =>
        /\ mgr[call.m].image.id # call.hadImage.id
        /\ call.phase # "returned" =>
              \A h \in handed : h.id # mgr[call.m].image.id
        /\ Len(mgr[call.m].image.pastes) <= Len(call.retrieved)
  /\ \A h \in handed : \A m \in Managers :
        mgr[m].image.id = h.id => mgr[m].image = h

\* a call with overwrite=False on a manager holding the image an earlier call
\* returned
C17_Witness ==
  /\ HeldBefore
  /\ call.kw.overwrite = PyBool(FALSE)
  /\ call.phase = "error"
  /\ call.hadImage \in handed

\* a call with overwrite=True that returned a second image from the manager
\* whose first image had been returned before
C17_WitnessFresh ==
  /\ HeldBefore
  /\ call.kw.overwrite = PyBool(TRUE)
  /\ call.phase = "returned"
  /\ call.hadImage \in handed
  /\ Cardinality(handed) = 2

\* the URL of the Google request in progress
GoogleUrl == GoogleManager_get_tile_url(mgr["google"], TileCoord(call), call.zoom)

\* C18: the file GoogleManager.create_map pastes was downloaded from the
\* URL of the request itself.
C18_PastedFromOwnUrl ==
  (call.m = "google" /\ call.phase = "returned") =>
    \A i \in DOMAIN mgr["google"].image.pastes :
       mgr["google"].image.pastes[i].content = GoogleUrl

\* C18 for a request that downloaded its file itself
C18_OwnDownloadPasted ==
  (call.m = "google" /\ call.phase = "returned" /\ call.fetches = 1) =>
    C18_PastedFromOwnUrl

\* some download to the path completed
FetchedOk(path) == \E i \in DOMAIN fetchLog : fetchLog[i].path = path /\ fetchLog[i].ok

\* C19: a cache file exists only if a download to it completed, and the
\* file retrieve_tile_image hands to the paste is never one left by a failed
\* download: after a failed download the next retrieve of the key fetches
\* again.
C19_FailedKeyRefetched ==
  /\ call.phase = "paste" => FetchedOk(call.fname)
  /\ (call.phase \in {"idle", "returned"}) => \A path \in DOMAIN files : FetchedOk(path)

\* C19 for a fetcher that leaves no file behind when it fails
C19_CleanFailuresRefetched ==
  (\A path \in DOMAIN files : files[path] # Partial) => C19_FailedKeyRefetched

====
